---- MODULE Spec2Model ----
(***************************************************************************)
(* LungoVax respiratory mechanics engine: the fixed-step RK4 integrator    *)
(* (ODE_solver.py), its scalar and Mth-order adapters, the two clamp mode  *)
(* simulations (assisted_respiration_simulations.py, simulations.py,       *)
(* lungovax_main.py) and the inputs frame that runs them                   *)
(* (GUI_lungovax.py).                                                      *)
(*                                                                         *)
(* Numbers are exact rationals <<n, d>> (d > 0, lowest terms): the         *)
(* properties below are statements about the arithmetic the code writes,   *)
(* not about floating-point rounding.  Arrays are sequences; the source's  *)
(* 0-based index k is element k+1.                                         *)
(***************************************************************************)
EXTENDS Integers, Sequences, FiniteSets, TLC

VARIABLES pc, call, module,
          T, F, X_0, X, j, k1, k2, k3, k4,
          f, v, i, x, x0,
          time_vector, capacitance, resistance, stim, peep,
          end_time, pause_lapsus,
          flux, volume, pressure, ex_time, index, v_0,
          args, runs, first, arg, ret,
          clamp_mode, tab_list, tabs, graph

rkVars == <<T, F, X_0, X, j, k1, k2, k3, k4>>
hoVars == <<f, v, i, x, x0>>
inVars == <<time_vector, capacitance, resistance, stim, peep>>
schedVars == <<end_time, pause_lapsus>>
outVars == <<flux, volume, pressure>>
exVars == <<ex_time, index, v_0>>
\* the caller's side: the schedule it passed, the calls it has completed and
\* what the first one returned; the argument and result of a stimulus call
\* the window: the clamp menu, the tab view's list of names and its tabs, and
\* the figure on display
guiVars == <<clamp_mode, tab_list, tabs, graph>>
callerVars == <<args, runs, first, arg, ret, guiVars>>
vars == <<pc, call, module, rkVars, hoVars, inVars, schedVars, outVars, exVars, callerVars>>

(***************************************************************************)
(* Bounds of the model.                                                    *)
(***************************************************************************)
\* longest time grid handed to a simulation or to ruku4
MaxN == 3
\* largest magnitude of an initial-condition component
MaxX0 == 1
\* longest time grid handed to vol_clamp_sim
MaxSamples == 5

(***************************************************************************)
(* Exact rational arithmetic.                                              *)
(***************************************************************************)
Abs(n) == IF n < 0 THEN -n ELSE n

RECURSIVE GCD(_, _)
GCD(a, b) == IF b = 0 THEN a ELSE GCD(b, a % b)

\* the rational n/d in lowest terms with a positive denominator (d # 0)
Q(n, d) ==
    LET g == GCD(Abs(n), Abs(d))
        sgn == IF d < 0 THEN -1 ELSE 1
    IN  <<(sgn * n) \div g, (sgn * d) \div g>>

QInt(n) == <<n, 1>>
Zero == <<0, 1>>
\* Python's None for an omitted keyword argument
None == <<0, 0>>

QAdd(a, b) ==
    LET g == GCD(a[2], b[2])
    IN  Q(a[1] * (b[2] \div g) + b[1] * (a[2] \div g), (a[2] \div g) * b[2])

QNeg(a) == <<-a[1], a[2]>>

QSub(a, b) == QAdd(a, QNeg(b))

QMul(a, b) ==
    LET g1 == GCD(Abs(a[1]), b[2])
        g2 == GCD(Abs(b[1]), a[2])
    IN  Q((a[1] \div g1) * (b[1] \div g2), (a[2] \div g2) * (b[2] \div g1))

\* a / b for b # 0
QDiv(a, b) == QMul(a, Q(b[2], b[1]))

QLt(a, b) == a[1] * b[2] < b[1] * a[2]

QLe(a, b) == a[1] * b[2] <= b[1] * a[2]

QAbs(a) == <<Abs(a[1]), a[2]>>

\* numpy elementwise arithmetic on 1-d arrays
RECURSIVE VAdd(_, _)
VAdd(A, B) == IF Len(A) = 0 THEN <<>>
              ELSE <<QAdd(A[1], B[1])>> \o VAdd(Tail(A), Tail(B))

RECURSIVE VScale(_, _)
VScale(c, A) == IF Len(A) = 0 THEN <<>>
                ELSE <<QMul(c, A[1])>> \o VScale(c, Tail(A))

RECURSIVE Dot(_, _)
Dot(A, B) == IF Len(A) = 0 THEN Zero
             ELSE QAdd(QMul(A[1], B[1]), Dot(Tail(A), Tail(B)))

\* an argmin that returns the last smallest element
ArgMin_last(A) ==
    CHOOSE k \in 0..(Len(A) - 1) :
        /\ \A m \in 0..(Len(A) - 1) : QLe(A[k + 1], A[m + 1])
        /\ \A m \in (k + 1)..(Len(A) - 1) : QLt(A[k + 1], A[m + 1])

\* numpy.argmin: the 0-based index of the first smallest element (A non-empty)
ArgMin(A) ==
    CHOOSE k \in 0..(Len(A) - 1) :
        /\ \A m \in 0..(Len(A) - 1) : QLe(A[k + 1], A[m + 1])
        /\ \A m \in 0..(k - 1) : QLt(A[k + 1], A[m + 1])

\* numpy.cumsum
RECURSIVE CumSum(_)
CumSum(A) ==
    IF Len(A) = 0 THEN <<>>
    ELSE LET front == CumSum(SubSeq(A, 1, Len(A) - 1))
         IN  IF Len(front) = 0 THEN <<A[1]>>
             ELSE Append(front, QAdd(front[Len(front)], A[Len(A)]))

\* numpy.gradient(A, d) for a uniform spacing d, edge_order 1 (Len(A) >= 2)
Gradient(A, d) ==
    [k \in 1..Len(A) |->
        IF k = 1 THEN QDiv(QSub(A[2], A[1]), d)
        ELSE IF k = Len(A) THEN QDiv(QSub(A[k], A[k - 1]), d)
        ELSE QDiv(QSub(A[k + 1], A[k - 1]), QMul(QInt(2), d))]

Half == <<1, 2>>

\* the source's 0-based subscript A[k]
At(A, k) == A[k + 1]

\* numpy.linspace-style grid: N equally spaced samples from t0 with step hh
Grid(t0, hh, N) == [k \in 1..N |-> QAdd(t0, QMul(QInt(k - 1), hh))]

\* a pulse with the comparison reversed: the amplitude outside the interval
ideal_pulse_func_outside(start, end, amplitude, t) ==
    LET t_0 == QDiv(QAdd(start, end), QInt(2))
        d == QSub(end, start)
    IN  IF d = Zero THEN Zero
        ELSE IF QLt(QAbs(QDiv(QSub(t, t_0), d)), Half) THEN Zero
        ELSE amplitude

(***************************************************************************)
(* Stimulus functions (callables of time).                                 *)
(*   ideal_pulse: ideal_pulse_func(start, end, amplitude)                  *)
(*   int_pulse:   the same with an amplitude that is a Python int          *)
(*   ramp:        a caller-supplied lambda t: a*t + b                      *)
(***************************************************************************)
\* amplitude * int(np.abs((t - t_0) / d) < 1 / 2); a zero d divides a numpy
\* float by zero, which yields inf or nan, and both compare False
ideal_pulse_func(start, end, amplitude, t) ==
    LET t_0 == QDiv(QAdd(start, end), QInt(2))
        d == QSub(end, start)
    IN  IF d = Zero THEN Zero
        ELSE IF QLt(QAbs(QDiv(QSub(t, t_0), d)), Half) THEN amplitude
        ELSE Zero

\* the value of the stimulus callable s at time t
CallStim(s, t) ==
    IF s.kind \in {"ideal_pulse", "int_pulse"}
    THEN ideal_pulse_func(s.start, s.end, s.amplitude, t)
    ELSE QAdd(QMul(s.a, t), s.b)

\* the last of the nearest samples where argmin takes the first
p_func_last(t) ==
    LET dist == [k \in 1..Len(time_vector) |-> QAbs(QSub(time_vector[k], t))]
    IN  pressure[CHOOSE n \in 1..Len(dist) :
                    /\ \A m \in 1..Len(dist) : QLe(dist[n], dist[m])
                    /\ \A m \in (n + 1)..Len(dist) : QLt(dist[n], dist[m])]

\* pressure[np.abs(time_array - t).argmin()]
p_func(t) ==
    At(pressure, ArgMin([k \in 1..Len(time_vector) |-> QAbs(QSub(time_vector[k], t))]))

(***************************************************************************)
(* FunctionArray: a list of callables f(t, X), each called on the same     *)
(* arguments.  A callable is a record naming the lambda it stands for;     *)
(* a lambda that closes over a variable reads it when it is called.        *)
(***************************************************************************)
\* a caller's lambda t, X: <a, X> + b*t + c*t*X[0]
CallPoly(fd, t, Xv) ==
    QAdd(Dot([k \in 1..Len(Xv) |-> QInt(fd.a[k])], Xv),
         QAdd(QMul(QInt(fd.b), t), QMul(QInt(fd.c), QMul(t, Xv[1]))))

\* one callable of a FunctionArray applied to (t, Xv)
CallFunc(fd, t, Xv) ==
    CASE fd.kind = "poly" -> CallPoly(fd, t, Xv)
      [] fd.kind = "state" ->
            \* lambda t, X : X[i+1], i being the enclosing loop variable
            At(Xv, i + 1)
      [] fd.kind = "last" ->
            \* lambda t, X : ( f(t, X[0]) - np.dot(v[:-1], X)) / v[-1]
            QDiv(QSub(CallPoly(f, t, <<Xv[1]>>),
                      Dot([k \in 1..(Len(v) - 1) |-> QInt(v[k])], Xv)),
                 QInt(v[Len(v)]))
      [] fd.kind = "decay" ->
            \* lambda _, v: -(v / capacitance) * 1 / resistance
            QDiv(QNeg(QDiv(Xv[1], capacitance)), resistance)
      [] fd.kind = "flux" ->
            \* (p_func(t) - v / compliance - peep) * 1 / resistance
            QDiv(QSub(QSub(p_func(t), QDiv(Xv[1], capacitance)), peep), resistance)
      [] fd.kind = "flux_main" ->
            \* lambda t, v : (P(t) - v/C - PEEP)*1/R
            QDiv(QSub(QSub(CallStim(stim, t), QDiv(Xv[1], capacitance)), peep), resistance)

\* FunctionArray.__call__
RECURSIVE FunctionArrayCall(_, _, _)
FunctionArrayCall(FA, t, Xv) ==
    IF Len(FA) = 0 THEN <<>>
    ELSE <<CallFunc(FA[1], t, Xv)>> \o FunctionArrayCall(Tail(FA), t, Xv)

(***************************************************************************)
(* ruku4(T, F, X_0)                                                        *)
(***************************************************************************)
h == QSub(T[2], T[1])

\* X_j = X[j, :]
X_j == At(X, j)

\* the state handed to F for k2: X_j + (h / 2) * k1
k2_state == VAdd(X_j, VScale(QMul(h, Half), k1))

\* k3 taken at the state of k2 (k1 where the source has k2)
k3_state_k1 == VAdd(X_j, VScale(QMul(h, Half), k1))

\* the state handed to F for k3: X_j + (h / 2) * k2
k3_state == VAdd(X_j, VScale(QMul(h, Half), k2))

\* the state handed to F for k4: X_j + h * k3
k4_state == VAdd(X_j, VScale(h, k3))

\* X_j + h * (k1 + 2 * k2 + 2 * k3 + k4) / 6
ruku4_row ==
    VAdd(X_j, VScale(QDiv(h, QInt(6)),
                     VAdd(VAdd(k1, VScale(QInt(2), k2)), VAdd(VScale(QInt(2), k3), k4))))

\* the array left at zeros, its first row never set
ruku4_alloc_zeros(N, M, X0) == [r \in 1..N |-> [m \in 1..M |-> Zero]]

\* X = np.zeros((N, M)); X[0, :] = X_0
ruku4_alloc(N, M, X0) ==
    [r \in 1..N |-> IF r = 1 THEN X0 ELSE [m \in 1..M |-> Zero]]

\* lines 39-43: h = T[1] - T[0] fails on a grid shorter than two samples
ruku4_enter ==
    /\ pc = "ruku4"
    /\ IF Len(T) < 2
       THEN /\ pc' = "IndexError"
            /\ UNCHANGED <<X, j>>
       ELSE /\ X' = ruku4_alloc(Len(T), Len(F), X_0)
            /\ j' = 0
            /\ pc' = "ruku4_loop"
    /\ UNCHANGED <<call, module, T, F, X_0, k1, k2, k3, k4,
                   hoVars, inVars, schedVars, outVars, exVars, callerVars>>

\* lines 45-47: the loop goes on, k1 = F(T[j], X_j)
ruku4_k1 ==
    /\ pc = "ruku4_loop"
    /\ j < Len(T) - 1
    /\ k1' = FunctionArrayCall(F, At(T, j), X_j)
    /\ pc' = "ruku4_k2"
    /\ UNCHANGED <<call, module, T, F, X_0, X, j, k2, k3, k4,
                   hoVars, inVars, schedVars, outVars, exVars, callerVars>>

\* line 48
ruku4_k2 ==
    /\ pc = "ruku4_k2"
    /\ k2' = FunctionArrayCall(F, QAdd(At(T, j), QMul(h, Half)), k2_state)
    /\ pc' = "ruku4_k3"
    /\ UNCHANGED <<call, module, T, F, X_0, X, j, k1, k3, k4,
                   hoVars, inVars, schedVars, outVars, exVars, callerVars>>

\* line 49
ruku4_k3 ==
    /\ pc = "ruku4_k3"
    /\ k3' = FunctionArrayCall(F, QAdd(At(T, j), QMul(h, Half)), k3_state)
    /\ pc' = "ruku4_k4"
    /\ UNCHANGED <<call, module, T, F, X_0, X, j, k1, k2, k4,
                   hoVars, inVars, schedVars, outVars, exVars, callerVars>>

\* line 50
ruku4_k4 ==
    /\ pc = "ruku4_k4"
    /\ k4' = FunctionArrayCall(F, QAdd(At(T, j), h), k4_state)
    /\ pc' = "ruku4_update"
    /\ UNCHANGED <<call, module, T, F, X_0, X, j, k1, k2, k3,
                   hoVars, inVars, schedVars, outVars, exVars, callerVars>>

\* line 51, and the loop variable moves on
ruku4_update ==
    /\ pc = "ruku4_update"
    /\ X' = [X EXCEPT ![j + 2] = ruku4_row]
    /\ j' = j + 1
    /\ pc' = "ruku4_loop"
    /\ UNCHANGED <<call, module, T, F, X_0, k1, k2, k3, k4,
                   hoVars, inVars, schedVars, outVars, exVars, callerVars>>

\* line 53: the loop is over
ruku4_return ==
    /\ pc = "ruku4_loop"
    /\ j = Len(T) - 1
    /\ pc' = "ruku4_ret"
    /\ UNCHANGED <<call, module, rkVars, hoVars, inVars, schedVars, outVars, exVars, callerVars>>

ruku4 == ruku4_enter \/ ruku4_k1 \/ ruku4_k2 \/ ruku4_k3 \/ ruku4_k4 \/ ruku4_update \/ ruku4_return

(***************************************************************************)
(* Direct calls of ruku4 on small systems.                                 *)
(***************************************************************************)
Poly(a, b, c) == [kind |-> "poly", a |-> a, b |-> b, c |-> c]

\* systems of test_ruku4 and test_single_ruku4, and small relatives
Systems ==
    { <<Poly(<<1, 2>>, 0, 0), Poly(<<3, 2>>, 0, 0)>>,
      <<Poly(<<0>>, 0, -1)>>,
      <<Poly(<<-1>>, 1, 0)>>,
      <<Poly(<<0, 1>>, 0, 0), Poly(<<-1, 0>>, 1, 0)>>,
      <<Poly(<<0, 1, 0>>, 0, 0), Poly(<<0, 0, 1>>, 0, 0), Poly(<<-1, 0, 1>>, 1, 0)>> }

Steps == {Zero, QInt(1), QInt(2)}

Grids == {Grid(t0, hh, N) : t0 \in {Zero, QInt(1)}, hh \in Steps, N \in 0..MaxN}

InitValues(M) == [1..M -> {QInt(n) : n \in (-MaxX0)..MaxX0}]

NoClamp ==
    /\ time_vector = <<>> /\ capacitance = None /\ resistance = None
    /\ stim = [kind |-> "none"] /\ peep = None
    /\ end_time = None /\ pause_lapsus = None
    /\ flux = <<>> /\ volume = <<>> /\ pressure = <<>>
    /\ ex_time = None /\ index = -1 /\ v_0 = None

NoHigherOrder == f = [kind |-> "none"] /\ v = <<>> /\ i = -1 /\ x = <<>> /\ x0 = None

\* no window
NoGui == clamp_mode = None /\ tab_list = <<>> /\ tabs = <<>> /\ graph = None

\* no call made yet, no stimulus being called
NoCaller == runs = 0 /\ first = <<>> /\ arg = None /\ ret = None /\ NoGui

\* the caller passes no schedule
NoArgs == args = [end_time |-> None, pause_lapsus |-> None]

InitRuku4 ==
    /\ pc = "ruku4" /\ call = "ruku4" /\ module = "ODE_solver"
    /\ T \in Grids
    /\ F \in Systems
    /\ X_0 \in InitValues(Len(F))
    /\ X = <<>> /\ j = 0 /\ k1 = <<>> /\ k2 = <<>> /\ k3 = <<>> /\ k4 = <<>>
    /\ NoHigherOrder /\ NoClamp /\ NoCaller /\ NoArgs

NextRuku4 == ruku4

SpecRuku4 == InitRuku4 /\ [][NextRuku4]_vars

\* F applied component by component, every component on the same (t, Xv)
SameStateF(t, Xv) == [m \in 1..Len(F) |-> CallFunc(F[m], t, Xv)]

\* Xv + c * Kv, componentwise
Axpy(Xv, c, Kv) == [m \in 1..Len(Xv) |-> QAdd(Xv[m], QMul(c, Kv[m]))]

InRuku4Loop == pc \in {"ruku4_loop", "ruku4_k2", "ruku4_k3", "ruku4_k4", "ruku4_update", "ruku4_ret"}

\* the row written last (0-based row j) is the RK4 update of row j-1
LastRowIsRK4 ==
    (InRuku4Loop /\ pc \in {"ruku4_loop", "ruku4_ret"} /\ j >= 1) =>
        LET Xp == At(X, j - 1)
            tp == At(T, j - 1)
            hh == QSub(T[2], T[1])
        IN  /\ k1 = SameStateF(tp, Xp)
            /\ k2 = SameStateF(QAdd(tp, QDiv(hh, QInt(2))), Axpy(Xp, QDiv(hh, QInt(2)), k1))
            /\ k3 = SameStateF(QAdd(tp, QDiv(hh, QInt(2))), Axpy(Xp, QDiv(hh, QInt(2)), k2))
            /\ k4 = SameStateF(QAdd(tp, hh), Axpy(Xp, hh, k3))
            /\ \A m \in 1..Len(F) :
                 At(X, j)[m] =
                    QAdd(Xp[m],
                         QMul(QDiv(hh, QInt(6)),
                              QAdd(QAdd(k1[m], QMul(QInt(2), k2[m])),
                                   QAdd(QMul(QInt(2), k3[m]), k4[m]))))

\* rows 0..j, once written, are not written again
RowsKept == InRuku4Loop => \A r \in 1..(j + 1) : X'[r] = X[r]

\* C1: every row j+1 of ruku4's output is X_j + h/6*(k1 + 2*k2 + 2*k3 + k4),
\* with k1 = F(t_j, X_j), k2 = F(t_j + h/2, X_j + h/2*k1),
\* k3 = F(t_j + h/2, X_j + h/2*k2), k4 = F(t_j + h, X_j + h*k3), h = T[1]-T[0],
\* all M components of a stage taken on the same stage state: each row is that
\* update when it is written, and no written row changes afterwards.
C1_RowsAreRK4Updates == [](LastRowIsRK4) /\ [][RowsKept]_vars

\* a run over three samples of a system of two or more equations, with moving rows
C1_Witness ==
    /\ pc = "ruku4_ret" /\ Len(T) >= 3 /\ Len(F) >= 2
    /\ h # Zero /\ X[2] # X[1] /\ X[3] # X[2]
    /\ k2 # k1 /\ k3 # k2

ho_check_same_length ==
    /\ pc = "higher_order_ODE"
    /\ pc' = IF Len(X_0) # Len(v) THEN "ValueError" ELSE "ho_loop"
    /\ UNCHANGED <<call, module, rkVars, hoVars, inVars, schedVars, outVars, exVars, callerVars>>

\* lines 93-95
ho_check ==
    /\ pc = "higher_order_ODE"
    /\ pc' = IF Len(X_0) + 1 # Len(v) THEN "ValueError" ELSE "ho_loop"
    /\ UNCHANGED <<call, module, rkVars, hoVars, inVars, schedVars, outVars, exVars, callerVars>>

\* lines 97-98: one iteration of for i in range(M-1); the lambda keeps a
\* reference to the loop variable i, not its value at this iteration
ho_append ==
    /\ pc = "ho_loop"
    /\ i + 1 < Len(X_0) - 1
    /\ i' = i + 1
    /\ F' = Append(F, [kind |-> "state"])
    /\ UNCHANGED <<pc, call, module, T, X_0, X, j, k1, k2, k3, k4, f, v, x, x0,
                   inVars, schedVars, outVars, exVars, callerVars>>

\* line 99, then the call of ruku4 on line 100
ho_append_last ==
    /\ pc = "ho_loop"
    /\ ~(i + 1 < Len(X_0) - 1)
    /\ F' = Append(F, [kind |-> "last"])
    /\ pc' = "ruku4"
    /\ UNCHANGED <<call, module, T, X_0, X, j, k1, k2, k3, k4,
                   hoVars, inVars, schedVars, outVars, exVars, callerVars>>

\* lines 100-101: x = ruku4(T, F, X_0)[:, 0]
ho_return ==
    /\ pc = "ruku4_ret"
    /\ call = "higher_order_ODE"
    /\ x' = [r \in 1..Len(X) |-> X[r][1]]
    /\ pc' = "done"
    /\ UNCHANGED <<call, module, rkVars, f, v, i, x0, inVars, schedVars, outVars, exVars, callerVars>>

\* right-hand sides f(t, x): 5*t of test_higher_order_ODE, 0, x and t - x
Forcings == {Poly(<<0>>, 5, 0), Poly(<<0>>, 0, 0), Poly(<<1>>, 0, 0), Poly(<<-1>>, 1, 0)}

\* coefficient vectors a_0 .. a_M
Coefficients == {<<1, 1>>, <<1, -2>>, <<1, -1, 1>>, <<0, 1, 2>>, <<1, 0, -1, 1>>, <<0, 1, 1, -2>>}

InitHigherOrder ==
    /\ pc = "higher_order_ODE" /\ call = "higher_order_ODE" /\ module = "ODE_solver"
    /\ T \in Grids
    /\ F = <<>>
    /\ \E M \in 1..3 : X_0 \in InitValues(M)
    \* order and grid length together small enough for 32-bit fractions
    /\ Len(X_0) + Len(T) <= 6
    /\ X = <<>> /\ j = 0 /\ k1 = <<>> /\ k2 = <<>> /\ k3 = <<>> /\ k4 = <<>>
    /\ f \in Forcings /\ v \in Coefficients /\ i = -1 /\ x = <<>> /\ x0 = None
    /\ NoClamp /\ NoCaller /\ NoArgs

NextHigherOrder ==
    ho_check \/ ho_append \/ ho_append_last \/ ruku4 \/ ho_return

SpecHigherOrder == InitHigherOrder /\ [][NextHigherOrder]_vars

\* the system is complete once the last lambda is appended
SystemBuilt == call = "higher_order_ODE" /\ pc \in {"ruku4", "ruku4_loop", "ruku4_ret", "done"}

\* C3: for every order M >= 1 the system built by higher_order_ODE has
\* component i equal to X[i+1] for each i < M-1 and last component
\* (f(t, X[0]) - <v[:-1], X>) / v[-1], and the returned sequence is the first
\* state component of the solution.  (Probed at the state X_0 and time 0.)
C3_SystemIsCompanionForm ==
    SystemBuilt =>
        LET M == Len(X_0)
        IN  /\ Len(F) = M
            /\ \A c \in 0..(M - 2) : CallFunc(At(F, c), Zero, X_0) = At(X_0, c + 1)
            /\ CallFunc(At(F, M - 1), Zero, X_0) =
                   QDiv(QSub(CallPoly(f, Zero, <<X_0[1]>>),
                             Dot([m \in 1..M |-> QInt(v[m])], X_0)),
                        QInt(v[M + 1]))
            /\ pc = "done" => x = [r \in 1..Len(T) |-> X[r][1]]

(***************************************************************************)
(* single_ruku4(T, f, x0), called by both clamp simulations                *)
(***************************************************************************)
\* lines 68-70, then the call of ruku4 on line 71
single_ruku4_enter ==
    /\ pc = "single_ruku4"
    /\ F' = Append(<<>>, f)
    /\ X_0' = <<x0>>
    /\ pc' = "ruku4"
    /\ UNCHANGED <<call, module, T, X, j, k1, k2, k3, k4,
                   hoVars, inVars, schedVars, outVars, exVars, callerVars>>

\* lines 71-72: x = ruku4(T, F, X_0)[:, 0]
single_ruku4_return ==
    /\ pc = "ruku4_ret"
    /\ call \in {"pressure_clamp_sim", "vol_clamp_sim"}
    /\ x' = [r \in 1..Len(X) |-> X[r][1]]
    /\ pc' = "single_ruku4_ret"
    /\ UNCHANGED <<call, module, rkVars, f, v, i, x0, inVars, schedVars, outVars, exVars, callerVars>>

single_ruku4 == single_ruku4_enter \/ ruku4 \/ single_ruku4_return

(***************************************************************************)
(* Inputs of the clamp simulations.                                        *)
(***************************************************************************)
Pulse(start, end, amplitude) ==
    [kind |-> "ideal_pulse", start |-> start, end |-> end, amplitude |-> amplitude]

\* ideal_pulse_func(start, end, amplitude) with an int amplitude: every value
\* amplitude * int(...) it returns is an int
IntPulse(start, end, amplitude) ==
    [kind |-> "int_pulse", start |-> start, end |-> end, amplitude |-> amplitude]

Ramp(a, b) == [kind |-> "ramp", a |-> a, b |-> b]

\* ideal pulses and caller-supplied functions of time
Stimuli ==
    { Pulse(QInt(-1), QInt(3), QInt(2)),
      Pulse(Q(1, 2), Q(5, 2), QInt(1)),
      IntPulse(QInt(-1), QInt(3), QInt(2)),
      Ramp(QInt(1), Zero),
      Ramp(QInt(-1), QInt(2)),
      Ramp(Zero, Zero) }

ClampSteps == {QInt(1), QInt(2)}

Lungs == {<<C, R>> : C \in {Half, QInt(1), QInt(2)}, R \in {Half, QInt(1), QInt(2)}}

\* h / (R*C) is 1, 2 or 4: the fractions of the RK4 steps stay small
StepRatioOK(hh, C, R) == QDiv(hh, QMul(R, C)) \in {QInt(1), QInt(2), QInt(4)}

Peeps == {Zero, QInt(1)}

NoRuku4 ==
    /\ T = <<>> /\ F = <<>> /\ X_0 = <<>> /\ X = <<>> /\ j = 0
    /\ k1 = <<>> /\ k2 = <<>> /\ k3 = <<>> /\ k4 = <<>>

NoSchedule ==
    /\ end_time = None /\ pause_lapsus = None
    /\ ex_time = None /\ index = -1 /\ v_0 = None

(***************************************************************************)
(* pressure_clamp_sim(time_array, compliance, resistance, pressure_function,*)
(* peep): assisted_respiration_simulations.py, and the older variant of    *)
(* lungovax_main.py that calls the stimulus inside the derivative.         *)
(***************************************************************************)
\* the sampled stimulus with peep added to it
sample_plus_peep(s, grid) == [k \in 1..Len(grid) |-> QAdd(CallStim(s, grid[k]), peep)]

\* np.vectorize(pressure_function)(time_array)
sample(s, grid) == [k \in 1..Len(grid) |-> CallStim(s, grid[k])]

\* the integration started from volume 1 where the source starts from 0
pc_sample_from_one ==
    /\ pc = "pressure_clamp_sim"
    /\ pressure' = sample(stim, time_vector)
    /\ T' = time_vector
    /\ f' = [kind |-> IF module = "lungovax_main" THEN "flux_main" ELSE "flux"]
    /\ x0' = QInt(1)
    /\ pc' = "single_ruku4"
    /\ UNCHANGED <<call, module, F, X_0, X, j, k1, k2, k3, k4, v, i, x,
                   inVars, schedVars, flux, volume, exVars, callerVars>>

\* lines 64-71 and the call of single_ruku4 on line 73
pc_sample ==
    /\ pc = "pressure_clamp_sim"
    /\ pressure' = sample(stim, time_vector)
    /\ T' = time_vector
    /\ f' = [kind |-> IF module = "lungovax_main" THEN "flux_main" ELSE "flux"]
    /\ x0' = Zero
    /\ pc' = "single_ruku4"
    /\ UNCHANGED <<call, module, F, X_0, X, j, k1, k2, k3, k4, v, i, x,
                   inVars, schedVars, flux, volume, exVars, callerVars>>

\* the flux forced to zero after end_time, as the volume clamp does
pc_return_scheduled ==
    /\ pc = "single_ruku4_ret"
    /\ call = "pressure_clamp_sim"
    /\ volume' = x
    /\ flux' = [k \in 1..Len(x) |->
                  IF end_time # None /\ QLt(end_time, time_vector[k]) THEN Zero
                  ELSE Gradient(x, QSub(time_vector[2], time_vector[1]))[k]]
    /\ pc' = "done"
    /\ UNCHANGED <<call, module, rkVars, hoVars, inVars, schedVars, pressure, exVars, callerVars>>

\* lines 73-75: volume = the solution, flux = np.gradient(volume, time_array)
pc_return ==
    /\ pc = "single_ruku4_ret"
    /\ call = "pressure_clamp_sim"
    /\ volume' = x
    /\ flux' = Gradient(x, QSub(time_vector[2], time_vector[1]))
    /\ pc' = "done"
    /\ UNCHANGED <<call, module, rkVars, hoVars, inVars, schedVars, pressure, exVars, callerVars>>

InitPressureClamp ==
    /\ pc = "pressure_clamp_sim" /\ call = "pressure_clamp_sim"
    /\ module \in {"assisted_respiration_simulations", "lungovax_main"}
    /\ \E hh \in ClampSteps, N \in 2..MaxN, L \in Lungs :
          /\ StepRatioOK(hh, L[1], L[2])
          /\ time_vector = Grid(Zero, hh, N)
          /\ capacitance = L[1]
          /\ resistance = L[2]
    /\ stim \in Stimuli
    /\ peep \in Peeps
    /\ flux = <<>> /\ volume = <<>> /\ pressure = <<>>
    /\ NoRuku4 /\ NoHigherOrder /\ NoSchedule /\ NoCaller /\ NoArgs

NextPressureClamp == pc_sample \/ single_ruku4 \/ pc_return

SpecPressureClamp == InitPressureClamp /\ [][NextPressureClamp]_vars

(***************************************************************************)
(* vol_clamp_sim(time_vector, capacitance, resistance, flux, peep,         *)
(*               pause_lapsus, end_time)                                   *)
(***************************************************************************)
\* int(0.6 * n)
int06(n) == (6 * n) \div 10

\* np.max
RECURSIVE Max(_)
Max(A) == IF Len(A) = 1 THEN A[1]
          ELSE LET rest == Max(Tail(A)) IN IF QLt(A[1], rest) THEN rest ELSE A[1]

\* the inhalation mask taken with >= where the source has >
after_inhale_from(k) == QLe(end_time, time_vector[k])

\* time_vector > end_time, at 1-based position k
after_inhale(k) == QLt(end_time, time_vector[k])

\* the sampled flux added onto the array an earlier call left, when there is one
inhale_flux_added ==
    [k \in 1..Len(time_vector) |->
        IF after_inhale(k) THEN Zero
        ELSE IF Len(flux) = Len(time_vector)
             THEN QAdd(flux[k], CallStim(stim, time_vector[k]))
             ELSE CallStim(stim, time_vector[k])]

\* np.vectorize(flux)(time_vector); flux[time_vector > end_time] = 0.0
inhale_flux == [k \in 1..Len(time_vector) |->
                   IF after_inhale(k) THEN Zero ELSE CallStim(stim, time_vector[k])]

dt == QSub(time_vector[2], time_vector[1])

\* the cumulative sum left unscaled by the step
integrate_unscaled(fl) == CumSum(fl)

\* np.cumsum(flux)*dt
integrate(fl) == VScale(dt, CumSum(fl))

\* the pressure without the resistance factor
pressure_of_unit_resistance(fl, vol) ==
    [k \in 1..Len(fl) |-> QAdd(QAdd(fl[k], QDiv(vol[k], capacitance)), peep)]

\* resistance * flux + volume / capacitance + peep
pressure_of(fl, vol) ==
    [k \in 1..Len(fl) |->
        QAdd(QAdd(QMul(resistance, fl[k]), QDiv(vol[k], capacitance)), peep)]

\* the exhalation mask taken with >= where the source has >
exhaling_from(e, k) == QLe(e, time_vector[k])

\* time_vector > ex_time, at 1-based position k, for an exhalation time e
exhaling(e, k) == QLt(e, time_vector[k])

\* the pressure left as computed, never clamped
clamp_to_peep_skipped(pr, e) == pr

\* pressure[time_vector > ex_time] = peep
clamp_to_peep(pr, e) == [k \in 1..Len(pr) |-> IF exhaling(e, k) THEN peep ELSE pr[k]]

\* the first sample after e where the source takes the nearest one
nearest_index_after(e) ==
    IF \A m \in 0..(Len(time_vector) - 1) : ~QLt(e, At(time_vector, m))
    THEN Len(time_vector) - 1
    ELSE CHOOSE n \in 0..(Len(time_vector) - 1) :
             /\ QLt(e, At(time_vector, n))
             /\ \A m \in 0..(n - 1) : ~QLt(e, At(time_vector, m))

\* np.abs(time_vector - ex_time).argmin()
nearest_index(e) == ArgMin([k \in 1..Len(time_vector) |-> QAbs(QSub(time_vector[k], e))])

\* time_vector[time_vector > ex_time]
RECURSIVE masked(_, _, _)
masked(A, e, k) ==
    IF k > Len(A) THEN <<>>
    ELSE (IF exhaling(e, k) THEN <<A[k]>> ELSE <<>>) \o masked(A, e, k + 1)

\* how many of the positions before k are selected by the mask
RECURSIVE rank(_, _)
rank(e, k) == IF k <= 1 THEN 0
              ELSE rank(e, k - 1) + (IF exhaling(e, k - 1) THEN 1 ELSE 0)

\* the values written back in reverse order
mask_assign_reversed(A, e, vals) ==
    [k \in 1..Len(A) |-> IF exhaling(e, k) THEN vals[Len(vals) - rank(e, k)] ELSE A[k]]

\* A[time_vector > ex_time] = vals
mask_assign(A, e, vals) ==
    [k \in 1..Len(A) |-> IF exhaling(e, k) THEN vals[rank(e, k) + 1] ELSE A[k]]

\* float to int as numpy converts on assignment: towards zero
trunc(q) == IF q[1] >= 0 THEN QInt(q[1] \div q[2]) ELSE QInt(-((-q[1]) \div q[2]))

\* the dtype np.vectorize gives the sampled stimulus: that of its first output
otype(s) == IF s.kind = "int_pulse" THEN "int" ELSE "float"

\* values as they are stored by an assignment into the array sampled from s
stored(s, vals) ==
    IF otype(s) = "int" THEN [k \in 1..Len(vals) |-> trunc(vals[k])] ELSE vals

\* the default end_time taken by simulations.py whether or not one was passed
vc_defaults_unconditional ==
    /\ pc = "vol_clamp_sim"
    /\ end_time' = IF end_time = None \/ module = "simulations"
                   THEN At(time_vector,
                           IF module = "assisted_respiration_simulations"
                           THEN int06(Len(time_vector)) ELSE Len(time_vector) \div 2)
                   ELSE end_time
    /\ pause_lapsus' = IF pause_lapsus = None
                       THEN QMul(Max(time_vector), Q(1, 10)) ELSE pause_lapsus
    /\ pc' = "vc_inhale"
    /\ UNCHANGED <<call, module, rkVars, hoVars, inVars, outVars, exVars, callerVars>>

\* lines 26-30
vc_defaults ==
    /\ pc = "vol_clamp_sim"
    /\ end_time' = IF end_time = None
                   THEN At(time_vector,
                           IF module = "assisted_respiration_simulations"
                           THEN int06(Len(time_vector)) ELSE Len(time_vector) \div 2)
                   ELSE end_time
    /\ pause_lapsus' = IF pause_lapsus = None
                       THEN QMul(Max(time_vector), Q(1, 10)) ELSE pause_lapsus
    /\ pc' = "vc_inhale"
    /\ UNCHANGED <<call, module, rkVars, hoVars, inVars, outVars, exVars, callerVars>>

\* lines 33-40
vc_inhale ==
    /\ pc = "vc_inhale"
    /\ flux' = inhale_flux
    /\ volume' = integrate(inhale_flux)
    /\ pressure' = pressure_of(inhale_flux, integrate(inhale_flux))
    /\ pc' = "vc_exhale"
    /\ UNCHANGED <<call, module, rkVars, hoVars, inVars, schedVars, exVars, callerVars>>

\* the exhalation seeded with the volume of the first sample
vc_exhale_seed_first ==
    /\ pc = "vc_exhale"
    /\ LET e == QAdd(end_time, pause_lapsus)
       IN  /\ ex_time' = e
           /\ pressure' = clamp_to_peep(pressure, e)
           /\ index' = 0
           /\ v_0' = At(volume, 0)
           /\ T' = masked(time_vector, e, 1)
           /\ x0' = At(volume, 0)
    /\ f' = [kind |-> "decay"]
    /\ pc' = "single_ruku4"
    /\ UNCHANGED <<call, module, F, X_0, X, j, k1, k2, k3, k4, v, i, x,
                   inVars, schedVars, flux, volume, callerVars>>

\* lines 43-46, and the call of single_ruku4 on lines 47-48
vc_exhale ==
    /\ pc = "vc_exhale"
    /\ LET e == QAdd(end_time, pause_lapsus)
       IN  /\ ex_time' = e
           /\ pressure' = clamp_to_peep(pressure, e)
           /\ index' = nearest_index(e)
           /\ v_0' = At(volume, nearest_index(e))
           /\ T' = masked(time_vector, e, 1)
           /\ x0' = At(volume, nearest_index(e))
    /\ f' = [kind |-> "decay"]
    /\ pc' = "single_ruku4"
    /\ UNCHANGED <<call, module, F, X_0, X, j, k1, k2, k3, k4, v, i, x,
                   inVars, schedVars, flux, volume, callerVars>>

\* lines 47-51: the solution overwrites the volume after ex_time, and the
\* flux there becomes its gradient
vc_return ==
    /\ pc = "single_ruku4_ret"
    /\ call = "vol_clamp_sim"
    /\ volume' = mask_assign(volume, ex_time, x)
    /\ flux' = mask_assign(flux, ex_time, stored(stim, Gradient(x, dt)))
    /\ pc' = "done"
    /\ UNCHANGED <<call, module, rkVars, hoVars, inVars, schedVars, pressure, exVars, callerVars>>

\* end_time and pause_lapsus as the caller gives them; None asks for the default
EndTimes == {None, QInt(1), Q(3, 2), QInt(3), QInt(6)}

Pauses == {None, QInt(-1), Zero, Q(1, 4), QInt(1)}

InitVolClamp ==
    /\ pc = "vol_clamp_sim" /\ call = "vol_clamp_sim"
    /\ module = "assisted_respiration_simulations"
    /\ \E hh \in ClampSteps, N \in 2..MaxSamples, L \in Lungs :
          /\ StepRatioOK(hh, L[1], L[2])
          /\ time_vector = Grid(Zero, hh, N)
          /\ capacitance = L[1]
          /\ resistance = L[2]
    /\ stim \in Stimuli
    /\ peep \in Peeps
    /\ end_time \in EndTimes
    /\ pause_lapsus \in Pauses
    /\ flux = <<>> /\ volume = <<>> /\ pressure = <<>>
    /\ args = [end_time |-> end_time, pause_lapsus |-> pause_lapsus]
    /\ ex_time = None /\ index = -1 /\ v_0 = None
    /\ NoRuku4 /\ NoHigherOrder /\ NoCaller

NextVolClamp == vc_defaults \/ vc_inhale \/ vc_exhale \/ single_ruku4 \/ vc_return

SpecVolClamp == InitVolClamp /\ [][NextVolClamp]_vars

\* one classical RK4 step of the scalar equation dV/dt = G(t, V)
ScalarRK4(G(_, _), tp, Vp, hh) ==
    LET s1 == G(tp, Vp)
        s2 == G(QAdd(tp, QDiv(hh, QInt(2))), QAdd(Vp, QMul(QDiv(hh, QInt(2)), s1)))
        s3 == G(QAdd(tp, QDiv(hh, QInt(2))), QAdd(Vp, QMul(QDiv(hh, QInt(2)), s2)))
        s4 == G(QAdd(tp, hh), QAdd(Vp, QMul(hh, s3)))
    IN  QAdd(Vp, QMul(QDiv(hh, QInt(6)),
                      QAdd(QAdd(s1, QMul(QInt(2), s2)), QAdd(QMul(QInt(2), s3), s4))))

\* (P(t) - V/C - PEEP)/R with the stimulus function called at t
StimulusRhs(t, V) ==
    QDiv(QSub(QSub(CallStim(stim, t), QDiv(V, capacitance)), peep), resistance)

\* the stimulus at the grid sample nearest to t, the first one on a tie
NearestSample(t) ==
    LET n == CHOOSE n \in 1..Len(time_vector) :
                /\ \A m \in 1..Len(time_vector) :
                      QLe(QAbs(QSub(time_vector[n], t)), QAbs(QSub(time_vector[m], t)))
                /\ \A m \in 1..(n - 1) :
                      QLt(QAbs(QSub(time_vector[n], t)), QAbs(QSub(time_vector[m], t)))
    IN  CallStim(stim, time_vector[n])

\* (p - V/C - PEEP)/R with p the nearest pre-sampled stimulus value
SampledRhs(t, V) ==
    QDiv(QSub(QSub(NearestSample(t), QDiv(V, capacitance)), peep), resistance)

\* the solver runs on the whole grid from volume 0, and what is returned is its solution
OnePassFromZero ==
    /\ InRuku4Loop => (T = time_vector /\ Len(X) = Len(time_vector) /\ X[1] = <<Zero>>)
    /\ pc = "done" => volume = [r \in 1..Len(time_vector) |-> X[r][1]]

RowWritten == pc \in {"ruku4_loop", "ruku4_ret"} /\ j >= 1

\* C4, as stated: in pressure-clamp mode the returned volume is the RK4 solution,
\* over the entire grid in one pass and from volume 0, of
\* dV/dt = (P(t) - V/C - PEEP)/R with the stimulus function P evaluated at the
\* time t of each RK4 stage.
C4_StimulusAtStageTime ==
    /\ OnePassFromZero
    /\ RowWritten =>
          At(X, j)[1] = ScalarRK4(StimulusRhs, At(T, j - 1), At(X, j - 1)[1], QSub(T[2], T[1]))

\* C4 as amended: assisted_respiration_simulations.pressure_clamp_sim solves, in
\* one RK4 pass over the entire grid from volume 0, dV/dt = (p(t) - V/C - PEEP)/R
\* where p(t) is the stimulus pre-sampled on the grid, read at the sample nearest
\* to the stage time t (index argmin|T - t|, the first on a tie); only the
\* lungovax_main variant calls the stimulus function at the stage time itself.
C4_NearestSampleAtStageTime ==
    /\ OnePassFromZero
    /\ (RowWritten /\ module = "assisted_respiration_simulations") =>
          At(X, j)[1] = ScalarRK4(SampledRhs, At(T, j - 1), At(X, j - 1)[1], QSub(T[2], T[1]))
    /\ (RowWritten /\ module = "lungovax_main") =>
          At(X, j)[1] = ScalarRK4(StimulusRhs, At(T, j - 1), At(X, j - 1)[1], QSub(T[2], T[1]))

\* a returned run of the current variant whose stimulus differs between a sample
\* and the half step after it, and between neighbouring samples
C4_Witness ==
    /\ pc = "done" /\ module = "assisted_respiration_simulations"
    /\ Len(time_vector) >= 3
    /\ CallStim(stim, QAdd(time_vector[1], QDiv(QSub(time_vector[2], time_vector[1]), QInt(2))))
          # pressure[1]
    /\ pressure[2] # pressure[1]
    /\ volume[2] # Zero /\ volume[3] # volume[2]

(***************************************************************************)
(* Properties of vol_clamp_sim.                                            *)
(***************************************************************************)
Returned == pc = "done" /\ call = "vol_clamp_sim"

Samples == 1..Len(time_vector)

exhale_time == QAdd(end_time, pause_lapsus)

AfterExhale(k) == QLt(exhale_time, time_vector[k])

\* the stimulus applied through end_time, zero afterwards
AppliedFlow(k) == IF QLt(end_time, time_vector[k]) THEN Zero ELSE CallStim(stim, time_vector[k])

RECURSIVE SumOf(_, _)
SumOf(G(_), k) == IF k = 0 THEN Zero ELSE QAdd(SumOf(G, k - 1), G(k))

ReturnedFlow(k) == flux[k]

\* C5: for every sample t_j > exhale_time (= end_time + pause_lapsus) the
\* returned pressure[j] is PEEP, whatever the stimulus, C, R and schedule.
C5_PeepAfterExhaleTime ==
    Returned => \A k \in Samples : AfterExhale(k) => pressure[k] = peep

\* a returned run where the mechanics formula would give another pressure there
C5_Witness ==
    /\ Returned
    /\ \E k \in Samples :
          /\ AfterExhale(k)
          /\ QAdd(QMul(resistance, flux[k]), QDiv(volume[k], capacitance)) # Zero
          /\ peep # Zero

\* C6: for every sample t_j <= exhale_time the returned pressure[j] is
\* R*flow[j] + volume[j]/C + PEEP, from the returned flow and volume at j.
C6_PressureFormulaUntilExhale ==
    Returned =>
        \A k \in Samples :
            ~AfterExhale(k) =>
                pressure[k] = QAdd(QAdd(QMul(resistance, flux[k]),
                                        QDiv(volume[k], capacitance)), peep)

\* a returned run with a sample exactly at exhale_time and flow under R # 1, C # 1
C6_Witness ==
    /\ Returned
    /\ resistance # QInt(1) /\ capacitance # QInt(1)
    /\ \E k \in Samples : time_vector[k] = exhale_time
    /\ \E k \in Samples : ~AfterExhale(k) /\ flux[k] # Zero /\ volume[k] # Zero

C8_VolumeIsCumulativeFlow ==
    Returned =>
        \A k \in Samples :
            ~AfterExhale(k) =>
                volume[k] = QMul(QSub(time_vector[2], time_vector[1]), SumOf(ReturnedFlow, k))

\* a returned run on a grid of step 2 whose volume grows over several samples
C8_Witness ==
    /\ Returned
    /\ QSub(time_vector[2], time_vector[1]) = QInt(2)
    /\ \E k \in Samples :
          /\ k >= 3 /\ ~AfterExhale(k)
          /\ volume[k] # volume[k - 1] /\ volume[k - 1] # volume[k - 2]

\* -V/(R*C)
DecayRhs(t, V) == QNeg(QDiv(V, QMul(resistance, capacitance)))

\* 1-based position of the sample nearest to exhale_time, the first on a tie
NearestToExhale ==
    CHOOSE n \in Samples :
        /\ \A m \in Samples : QLe(QAbs(QSub(time_vector[n], exhale_time)),
                                  QAbs(QSub(time_vector[m], exhale_time)))
        /\ \A m \in 1..(n - 1) : QLt(QAbs(QSub(time_vector[n], exhale_time)),
                                     QAbs(QSub(time_vector[m], exhale_time)))

\* the volume before the exhalation overwrites it
InhaledVolume(k) == QMul(QSub(time_vector[2], time_vector[1]), SumOf(AppliedFlow, k))

\* C9: over the samples with t > exhale_time the returned volume is the RK4
\* solution of dV/dt = -V/(R*C) on that sub-grid, its value at the first such
\* sample being the volume, before the overwrite, at index
\* argmin|t - exhale_time| (the nearest sample, no interpolation).
C9_ExhaleIsRK4DecayFromNearest ==
    Returned =>
        \A k \in Samples :
            AfterExhale(k) =>
                IF k = 1 \/ ~AfterExhale(k - 1)
                THEN volume[k] = InhaledVolume(NearestToExhale)
                ELSE volume[k] = ScalarRK4(DecayRhs, time_vector[k - 1], volume[k - 1],
                                           QSub(time_vector[2], time_vector[1]))

\* a returned run with three samples after an exhale_time that lies between two
\* samples, the nearest one not being the first sample after it, from a seed # 0
C9_Witness ==
    /\ Returned
    /\ \A k \in Samples : time_vector[k] # exhale_time
    /\ ~AfterExhale(NearestToExhale)
    /\ \E k \in Samples :
          /\ k >= 2 /\ k + 2 <= Len(time_vector)
          /\ AfterExhale(k) /\ ~AfterExhale(k - 1)
          /\ volume[k] # Zero /\ volume[k + 2] # volume[k + 1]

\* C10: vol_clamp_sim ends by returning volume, flow and pressure, each of
\* length N and aligned with the grid, for every valid grid, positive C and R
\* and every schedule, also when exhale_time is at or beyond t_last or fewer
\* than two samples lie after it.
C10_AlwaysReturnsAligned ==
    (call = "vol_clamp_sim" /\ pc \in {"done", "IndexError", "ValueError"}) =>
        /\ pc = "done"
        /\ Len(volume) = Len(time_vector)
        /\ Len(flux) = Len(time_vector)
        /\ Len(pressure) = Len(time_vector)

(***************************************************************************)
(* Both clamp simulations called with a compliance or a resistance that is *)
(* not positive.  Neither function looks at the sign of its parameters.    *)
(* (A zero divides by zero in floating point, which produces inf or nan    *)
(* and no exception; only negative values are run here.)                   *)
(***************************************************************************)
NonPositiveLungs == {<<QInt(-1), QInt(1)>>, <<QInt(1), QInt(-1)>>, <<QInt(-1), QInt(-1)>>}

InitClampParams ==
    /\ module = "assisted_respiration_simulations"
    /\ \E N \in 2..MaxN, L \in NonPositiveLungs :
          /\ time_vector = Grid(Zero, QInt(1), N)
          /\ capacitance = L[1]
          /\ resistance = L[2]
    /\ stim \in Stimuli
    /\ peep \in Peeps
    /\ flux = <<>> /\ volume = <<>> /\ pressure = <<>>
    /\ ex_time = None /\ index = -1 /\ v_0 = None
    /\ NoRuku4 /\ NoHigherOrder /\ NoCaller
    /\ \/ /\ pc = "pressure_clamp_sim" /\ call = "pressure_clamp_sim"
          /\ end_time = None /\ pause_lapsus = None /\ NoArgs
       \/ /\ pc = "vol_clamp_sim" /\ call = "vol_clamp_sim"
          /\ end_time \in EndTimes /\ pause_lapsus \in Pauses
          /\ args = [end_time |-> end_time, pause_lapsus |-> pause_lapsus]

NextClampParams ==
    pc_sample \/ pc_return \/ vc_defaults \/ vc_inhale \/ vc_exhale \/ single_ruku4 \/ vc_return

SpecClampParams == InitClampParams /\ [][NextClampParams]_vars

\* C11: with compliance <= 0 or resistance <= 0 both clamp simulations raise
\* InvalidParameterError before any output array is allocated or computed.
C11_RejectsNonPositiveLung ==
    (call \in {"pressure_clamp_sim", "vol_clamp_sim"}
        /\ (QLe(capacitance, Zero) \/ QLe(resistance, Zero))) =>
        /\ pc \in {"pressure_clamp_sim", "vol_clamp_sim", "InvalidParameterError"}
        /\ flux = <<>> /\ volume = <<>> /\ pressure = <<>>

(***************************************************************************)
(* Error handling of the integrator and of the Mth-order adapter.          *)
(***************************************************************************)
\* C12: ruku4 fails with an error, neither dividing by zero nor returning a
\* result, whenever the time grid has fewer than 2 samples or its step
\* h = T[1] - T[0] is 0.
C12_FailsOnMalformedGrid ==
    (call = "ruku4" /\ (Len(T) < 2 \/ T[2] = T[1])) =>
        pc \in {"ruku4", "IndexError", "InvalidInputError"}

\* C13: higher_order_ODE fails with its dimension-mismatch error (a ValueError)
\* whenever len(X_0) + 1 # len(v), before any derivative function is built or
\* any integration step is taken; when the lengths match it never raises it.
C13_MismatchRaisesFirst ==
    call = "higher_order_ODE" =>
        IF Len(X_0) + 1 # Len(v)
        THEN /\ pc \in {"higher_order_ODE", "ValueError"}
             /\ F = <<>> /\ X = <<>> /\ i = -1 /\ x = <<>>
        ELSE pc # "ValueError"

\* the error raised for a coefficient vector one element short
C13_Witness ==
    /\ call = "higher_order_ODE" /\ pc = "ValueError"
    /\ Len(X_0) = 3 /\ Len(v) = 3

(***************************************************************************)
(* Properties of pressure_clamp_sim.                                       *)
(***************************************************************************)
PressureReturned == pc = "done" /\ call = "pressure_clamp_sim"

\* P(t) = 0 for all t
ZeroStimulus == stim = Ramp(Zero, Zero)

\* C14, as stated: in pressure-clamp mode with P(t) = 0 for all t and zero
\* initial volume the returned volume is 0 at every sample, for every
\* PEEP >= 0 and every positive C and R.
C14_ZeroStimulusZeroVolume ==
    (PressureReturned /\ ZeroStimulus) =>
        \A k \in 1..Len(volume) : volume[k] = Zero

\* C14, amended: the same with PEEP = 0.
C14_ZeroStimulusZeroPeepZeroVolume ==
    (PressureReturned /\ ZeroStimulus /\ peep = Zero) =>
        \A k \in 1..Len(volume) : volume[k] = Zero

\* a returned run of three samples with P = 0, PEEP = 0 and R # C
C14_Witness ==
    /\ PressureReturned /\ ZeroStimulus /\ peep = Zero
    /\ Len(volume) = 3 /\ resistance # capacitance

(***************************************************************************)
(* vol_clamp_sim called with or without a schedule, on grids that start at *)
(* 0 or later, in the variants of assisted_respiration_simulations.py and  *)
(* simulations.py (they differ in the default of end_time only).           *)
(***************************************************************************)
InitVolClampDefaults ==
    /\ pc = "vol_clamp_sim" /\ call = "vol_clamp_sim"
    /\ module \in {"assisted_respiration_simulations", "simulations"}
    /\ \E t0 \in {Zero, QInt(1)}, hh \in ClampSteps, N \in 2..MaxSamples, L \in Lungs :
          /\ StepRatioOK(hh, L[1], L[2])
          /\ time_vector = Grid(t0, hh, N)
          /\ capacitance = L[1]
          /\ resistance = L[2]
    /\ stim \in Stimuli
    /\ peep \in Peeps
    /\ end_time \in {None, QInt(1)}
    /\ pause_lapsus \in {None, Zero}
    /\ args = [end_time |-> end_time, pause_lapsus |-> pause_lapsus]
    /\ flux = <<>> /\ volume = <<>> /\ pressure = <<>>
    /\ ex_time = None /\ index = -1 /\ v_0 = None
    /\ NoRuku4 /\ NoHigherOrder /\ NoCaller

NextVolClampDefaults == vc_defaults \/ vc_inhale \/ vc_exhale \/ single_ruku4 \/ vc_return

SpecVolClampDefaults == InitVolClampDefaults /\ [][NextVolClampDefaults]_vars

\* C15: when the caller omits them, end_time defaults to the midpoint of the
\* time grid and pause_lapsus to 10% of the grid's duration t_last - t_0, for
\* every grid, those with t_0 # 0 included.
C15_DefaultsFromGrid ==
    (call = "vol_clamp_sim" /\ pc = "vc_inhale") =>
        LET t_first == time_vector[1]
            t_last == time_vector[Len(time_vector)]
        IN  /\ args.end_time = None =>
                   end_time = QDiv(QAdd(t_first, t_last), QInt(2))
            /\ args.pause_lapsus = None =>
                   pause_lapsus = QDiv(QSub(t_last, t_first), QInt(10))

(***************************************************************************)
(* Phases of vol_clamp_sim.                                                *)
(***************************************************************************)
InhalePhase(k) == ~QLt(end_time, time_vector[k])

PausePhase(k) == QLt(end_time, time_vector[k]) /\ ~AfterExhale(k)

ExhalePhase(k) == AfterExhale(k)

ExactlyOnePhase(k) ==
    /\ InhalePhase(k) \/ PausePhase(k) \/ ExhalePhase(k)
    /\ ~(InhalePhase(k) /\ PausePhase(k))
    /\ ~(InhalePhase(k) /\ ExhalePhase(k))
    /\ ~(PausePhase(k) /\ ExhalePhase(k))

\* 1 = INHALE, 2 = PAUSE, 3 = EXHALE
PhaseOf(k) == IF ExhalePhase(k) THEN 3 ELSE IF PausePhase(k) THEN 2 ELSE 1

\* what the function did to sample k: 3 if it overwrote it with the decay,
\* 2 if it zeroed the applied flow, 1 if it kept the stimulus
Treatment(k) == IF exhaling(ex_time, k) THEN 3 ELSE IF after_inhale(k) THEN 2 ELSE 1

PhaseSequenced ==
    /\ \A k \in Samples : ExactlyOnePhase(k) /\ Treatment(k) = PhaseOf(k)
    /\ \A k, m \in Samples : k < m => Treatment(k) <= Treatment(m)

\* C16, as stated: every sample belongs to exactly one phase (INHALE if
\* t <= end_time, PAUSE if end_time < t <= exhale_time, EXHALE if
\* t > exhale_time) and in index order the phase never moves backwards, for
\* every schedule vol_clamp_sim accepts.
C16_PhaseSequencedAnySchedule == Returned => PhaseSequenced

\* C16, amended: the same for every schedule with pause_lapsus >= 0.
C16_PhaseSequencedNonNegativePause ==
    (Returned /\ QLe(Zero, pause_lapsus)) => PhaseSequenced

\* a returned run with samples in all three phases, one of them at exhale_time
C16_Witness ==
    /\ Returned /\ QLt(Zero, pause_lapsus)
    /\ \E k \in Samples : PhaseOf(k) = 1
    /\ \E k \in Samples : PhaseOf(k) = 2 /\ time_vector[k] = exhale_time
    /\ \E k \in Samples : PhaseOf(k) = 3

(***************************************************************************)
(* A caller that runs the same simulation twice on the same arguments, as  *)
(* the GUI does on each press of its run button.  Whatever the first call  *)
(* left in the variables of the functions is still there when the second   *)
(* one starts; only the arguments are passed afresh.                       *)
(***************************************************************************)
call_again ==
    /\ pc = "done"
    /\ call \in {"pressure_clamp_sim", "vol_clamp_sim"}
    /\ runs = 0
    /\ first' = <<volume, flux, pressure>>
    /\ runs' = 1
    /\ end_time' = args.end_time
    /\ pause_lapsus' = args.pause_lapsus
    /\ pc' = call
    /\ UNCHANGED <<call, module, rkVars, hoVars, inVars, outVars, exVars, args, arg, ret, guiVars>>

InitClampTwice == InitPressureClamp \/ InitVolClamp

NextClampTwice ==
    \/ pc_sample \/ pc_return
    \/ vc_defaults \/ vc_inhale \/ vc_exhale \/ vc_return
    \/ single_ruku4
    \/ call_again

SpecClampTwice == InitClampTwice /\ [][NextClampTwice]_vars

\* C17: a second call of either clamp simulation with identical inputs returns
\* volume, flow and pressure identical to the first call's; nothing the first
\* call created, FunctionArray contents included, influences the second.
C17_SecondCallIdentical ==
    runs = 1 =>
        /\ pc \in {"ruku4_loop", "ruku4_ret"} => Len(F) = 1
        /\ pc # "IndexError"
        /\ pc = "done" => <<volume, flux, pressure>> = first

\* a second volume-clamp call returned, its exhalation under way from a
\* volume that is not 0, on a schedule whose exhalation overwrites inhalation
\* samples
C17_Witness ==
    /\ runs = 1 /\ Returned
    /\ QLt(pause_lapsus, Zero)
    /\ \E k \in Samples : AfterExhale(k) /\ volume[k] # Zero /\ flux[k] # Zero

(***************************************************************************)
(* ideal_pulse_func(start, end, amplitude)(t), called on its own.          *)
(***************************************************************************)
\* line 168 with d # 0, or with d = 0 and a numpy scalar among t, start and
\* end: the quotient is then inf or nan and the comparison is False
pulse_return ==
    /\ pc = "ideal_pulse_func"
    /\ ret' = ideal_pulse_func(stim.start, stim.end, stim.amplitude, arg)
    /\ pc' = "returned"
    /\ UNCHANGED <<call, module, rkVars, hoVars, inVars, schedVars, outVars, exVars,
                   args, runs, first, arg, guiVars>>

\* line 168 with d = 0 and t, start and end plain Python floats: float division
\* by zero raises
pulse_zero_division ==
    /\ pc = "ideal_pulse_func"
    /\ QSub(stim.end, stim.start) = Zero
    /\ pc' = "ZeroDivisionError"
    /\ UNCHANGED <<call, module, rkVars, hoVars, inVars, schedVars, outVars, exVars, callerVars>>

\* pulse edges and times on a grid of halves
PulseTimes == {Q(n, 2) : n \in -1..5}

PulseEdges == {QInt(0), QInt(1), Q(3, 2), QInt(2)}

InitIdealPulse ==
    /\ pc = "ideal_pulse_func" /\ call = "ideal_pulse_func"
    /\ module = "assisted_respiration_simulations"
    /\ \E a \in PulseEdges, b \in PulseEdges, amp \in {QInt(-1), QInt(2), Q(5, 2)} :
          stim = Pulse(a, b, amp)
    /\ arg \in PulseTimes
    /\ ret = None /\ runs = 0 /\ first = <<>> /\ NoArgs /\ NoGui
    /\ time_vector = <<>> /\ capacitance = None /\ resistance = None /\ peep = None
    /\ end_time = None /\ pause_lapsus = None
    /\ flux = <<>> /\ volume = <<>> /\ pressure = <<>>
    /\ ex_time = None /\ index = -1 /\ v_0 = None
    /\ NoRuku4 /\ NoHigherOrder

NextIdealPulse == pulse_return \/ pulse_zero_division

SpecIdealPulse == InitIdealPulse /\ [][NextIdealPulse]_vars

\* C18: the ideal pulse built from (start, end, amplitude) returns amplitude
\* for every t with start < t < end and 0 for every other t, t = start,
\* t = end and every t when start >= end included.
C18_PulseInsideOpenInterval ==
    call = "ideal_pulse_func" =>
        /\ pc # "ZeroDivisionError"
        /\ pc = "returned" =>
               ret = IF QLt(stim.start, arg) /\ QLt(arg, stim.end)
                     THEN stim.amplitude ELSE Zero

(***************************************************************************)
(* Derived flow.                                                           *)
(***************************************************************************)
\* the finite difference of V at position k of the range lo..hi, spacing hh:
\* central inside the range, one-sided at its two ends
FiniteDifference(V, lo, hi, k, hh) ==
    IF k = lo THEN QDiv(QSub(V[lo + 1], V[lo]), hh)
    ELSE IF k = hi THEN QDiv(QSub(V[hi], V[hi - 1]), hh)
    ELSE QDiv(QSub(V[k + 1], V[k - 1]), QMul(QInt(2), hh))

\* first position after exhale_time
FirstExhaled == CHOOSE k \in Samples : AfterExhale(k) /\ \A m \in 1..(k - 1) : ~AfterExhale(m)

\* C19: the derived flow is the finite-difference gradient of the volume, over
\* the full grid in pressure-clamp mode and over the samples t > exhale_time
\* in volume-clamp mode: (V[j+1] - V[j-1])/(2h) inside the range, a one-sided
\* difference at its two ends.
C19_FlowIsGradientOfVolume ==
    /\ PressureReturned =>
          \A k \in Samples :
              flux[k] = FiniteDifference(volume, 1, Len(volume), k,
                                         QSub(time_vector[2], time_vector[1]))
    /\ Returned =>
          \A k \in Samples :
              AfterExhale(k) =>
                  flux[k] = FiniteDifference(volume, FirstExhaled, Len(volume), k,
                                             QSub(time_vector[2], time_vector[1]))

TestPulses ==
    {Pulse(a, b, amp) : a \in {Half, QInt(1)}, b \in {Q(5, 2), QInt(3)},
                        amp \in {QInt(1), QInt(5)}}

InitPressurePulse ==
    /\ pc = "pressure_clamp_sim" /\ call = "pressure_clamp_sim"
    /\ module \in {"assisted_respiration_simulations", "lungovax_main"}
    /\ \E hh \in ClampSteps, N \in 2..MaxSamples, L \in Lungs :
          /\ StepRatioOK(hh, L[1], L[2])
          /\ time_vector = Grid(Zero, hh, N)
          /\ capacitance = L[1]
          /\ resistance = L[2]
    /\ stim \in TestPulses
    /\ peep \in Peeps
    /\ flux = <<>> /\ volume = <<>> /\ pressure = <<>>
    /\ NoRuku4 /\ NoHigherOrder /\ NoSchedule /\ NoCaller /\ NoArgs

NextPressurePulse == pc_sample \/ single_ruku4 \/ pc_return

SpecPressurePulse == InitPressurePulse /\ [][NextPressurePulse]_vars

\* z = h/(R*C) of the run
StepRatio == QDiv(QSub(time_vector[2], time_vector[1]), QMul(resistance, capacitance))

\* the pulse lies inside the grid and at least one sample lies inside the pulse
PulseInsideGrid ==
    /\ stim.kind = "ideal_pulse" /\ QLt(Zero, stim.amplitude)
    /\ QLe(time_vector[1], stim.start) /\ QLt(stim.start, stim.end)
    /\ QLe(stim.end, time_vector[Len(time_vector)])
    /\ \E k \in Samples : QLt(stim.start, time_vector[k]) /\ QLt(time_vector[k], stim.end)

InsidePulse(k) == QLt(stim.start, time_vector[k]) /\ QLt(time_vector[k], stim.end)

AfterPulse(k) == QLt(stim.end, time_vector[k])

RisesThenDecays ==
    /\ \A k \in Samples : QLe(Zero, volume[k])
    /\ \A k \in 1..(Len(volume) - 1) :
          /\ (InsidePulse(k) /\ InsidePulse(k + 1)) => QLe(volume[k], volume[k + 1])
          /\ (AfterPulse(k) /\ AfterPulse(k + 1)) => QLe(volume[k + 1], volume[k])
    /\ \E k \in Samples : QLt(Zero, volume[k])

\* C21: in pressure-clamp mode with zero PEEP, zero initial volume and an
\* ideal pulse of positive amplitude on (start, end) inside the grid (some
\* sample falling inside it) and a small step, h/(R*C) = 1 being the
\* smallest ratio run here, the volume is non-decreasing over the samples
\* inside (start, end), non-increasing over the samples after end, never
\* negative, and its peak is > 0.
C21_PulseVolumeRisesThenDecays ==
    (PressureReturned /\ peep = Zero /\ PulseInsideGrid
        /\ StepRatio = QInt(1)) => RisesThenDecays

\* a returned run with two samples inside the pulse and two after it, the
\* volume strictly rising over the first pair and strictly falling over the
\* second
C21_Witness ==
    /\ PressureReturned /\ peep = Zero /\ PulseInsideGrid
    /\ StepRatio = QInt(1)
    /\ \E k \in Samples :
          /\ k + 3 \in Samples
          /\ InsidePulse(k) /\ InsidePulse(k + 1)
          /\ AfterPulse(k + 2) /\ AfterPulse(k + 3)
          /\ QLt(volume[k], volume[k + 1])
          /\ QLt(volume[k + 3], volume[k + 2])
          /\ QLt(Zero, volume[k + 3])

(***************************************************************************)
(* Passive decay of the volume after exhale_time in vol_clamp_sim.         *)
(***************************************************************************)
\* z = h/(R*C) of the run
VolStepRatio == QDiv(dt, QMul(resistance, capacitance))

\* what one RK4 step of dV/dt = -V/(R*C) multiplies V by
RK4Factor(z) ==
    LET z2 == QMul(z, z)
        z3 == QMul(z2, z)
        z4 == QMul(z3, z)
    IN  QAdd(QSub(QAdd(QSub(QInt(1), z), QDiv(z2, QInt(2))), QDiv(z3, QInt(6))),
             QDiv(z4, QInt(24)))

\* h/(R*C) for which 0 <= RK4Factor < 1
StableRatios == {QInt(1), QInt(2)}

\* C22: in volume-clamp mode, given a non-negative seed volume and a step
\* with h/(R*C) within the RK4 stability range, over the samples after
\* exhale_time every volume is non-negative, each one is the previous one
\* multiplied by 1 - z + z^2/2 - z^3/6 + z^4/24 (z = h/(R*C)) and so no
\* larger than it, and the recomputed flow there is <= 0.
C22_PassiveDecayAfterExhale ==
    (Returned /\ VolStepRatio \in StableRatios /\ QLe(Zero, v_0)) =>
        \A k \in Samples :
            AfterExhale(k) =>
                /\ QLe(Zero, volume[k])
                /\ QLe(flux[k], Zero)
                /\ (k > 1 /\ AfterExhale(k - 1)) =>
                      /\ volume[k] = QMul(RK4Factor(VolStepRatio), volume[k - 1])
                      /\ QLe(volume[k], volume[k - 1])

\* a returned run with three samples after exhale_time, a positive seed, the
\* volume strictly falling and the flow strictly negative there
C22_Witness ==
    /\ Returned /\ VolStepRatio \in StableRatios /\ QLt(Zero, v_0)
    /\ \E k \in Samples :
          /\ k >= 2 /\ k + 2 \in Samples
          /\ ~AfterExhale(k - 1) /\ AfterExhale(k)
          /\ QLt(volume[k + 1], volume[k]) /\ QLt(volume[k + 2], volume[k + 1])
          /\ QLt(Zero, volume[k + 2])
          /\ QLt(flux[k], Zero) /\ QLt(flux[k + 2], Zero)

(***************************************************************************)
(* GUI_lungovax.py: the inputs frame of the assisted-respiration window.   *)
(* Each tab of the parameters controller holds the sliders of one          *)
(* simulation; the run button calls run_sim, which reads every tab of      *)
(* tab_list, runs one simulation (one tab) or two (two tabs) and hands the *)
(* figure to update_graph.  Of the four stimulus choices only the ideal    *)
(* pulse is rational-valued and run here; the smooth, ripply and           *)
(* sinusoidal ones are not.                                                *)
(***************************************************************************)
PRESSURE_MODE_SIM_TEXT == "PRESSURE_MODE_SIM_TEXT"

VOLUME_MODE_SIM_TEXT == "VOLUME_MODE_SIM_TEXT"

IDEAL_PULSE_TEXT == "IDEAL_PULSE_TEXT"

\* a string that is none of the menu's or the radio buttons' values
Unrecognized == "?"

\* np.linspace(0, SIM_TIME, 1500), on a grid of step 1 with MaxSamples samples
linspace == Grid(Zero, QInt(1), MaxSamples)

\* the state of one tab's widgets
TabSettings ==
    {[slider_cap1 |-> QInt(2), slider_cap2 |-> QInt(2), switch_var |-> L[1],
      slider_resistance |-> L[2], choice |-> c, values |-> vals] :
        L \in {<<TRUE, QInt(1000)>>, <<FALSE, QInt(500)>>},
        c \in {IDEAL_PULSE_TEXT, Unrecognized},
        vals \in {<<Half, Q(5, 2), QInt(10)>>, <<QInt(1), QInt(3), QInt(20)>>}}

\* the widgets configure_tab creates
DefaultTab ==
    [slider_cap1 |-> QInt(2), slider_cap2 |-> QInt(2), switch_var |-> TRUE,
     slider_resistance |-> QInt(1000), choice |-> IDEAL_PULSE_TEXT,
     values |-> <<Half, Q(5, 2), QInt(10)>>]

\* SimulationParametersControllerTabview.get_system_parameters
get_system_parameters(tab_name) ==
    LET tab == tabs[tab_name]
        capacitance_1 == tab.slider_cap1
        capacitance_2 == tab.slider_cap2
    IN  <<IF tab.switch_var
          THEN QDiv(QMul(capacitance_1, capacitance_2), QAdd(capacitance_1, capacitance_2))
          ELSE capacitance_1,
          tab.slider_resistance>>

\* the amplitude factor of the clamp mode
multiplier == IF clamp_mode = PRESSURE_MODE_SIM_TEXT THEN Q(1, 10) ELSE QInt(4)

\* one pass of the loop of get_clamping_funcs: func, end_time, pause_lapsus
clamping_func(tab_name) ==
    LET values == tabs[tab_name].values
    IN  <<Pulse(values[1], values[2], QMul(values[3], multiplier)), values[2], None>>

\* the raise without the else branch of the stimulus choice
run_sim_raises_mode_only ==
    \/ \E k \in 1..Len(tab_list) : tab_list[k] \notin DOMAIN tabs
    \/ clamp_mode \notin {PRESSURE_MODE_SIM_TEXT, VOLUME_MODE_SIM_TEXT}

\* get_params or get_clamping_funcs raises: a name of tab_list without a tab,
\* a clamp mode that is neither menu value, a choice that is no radio button
run_sim_raises ==
    \/ \E k \in 1..Len(tab_list) : tab_list[k] \notin DOMAIN tabs
    \/ clamp_mode \notin {PRESSURE_MODE_SIM_TEXT, VOLUME_MODE_SIM_TEXT}
    \/ \E k \in 1..Len(tab_list) : tabs[tab_list[k]].choice # IDEAL_PULSE_TEXT

\* lines 329-338, from the press of the run button
run_sim_params ==
    /\ pc = "idle"
    /\ call' = "run_sim"
    /\ runs' = 0
    /\ first' = <<>>
    /\ IF run_sim_raises
       THEN /\ pc' = "ValueError"
            /\ UNCHANGED <<time_vector, args>>
       ELSE /\ time_vector' = linspace
            /\ args' = [capacitances |-> [k \in 1..Len(tab_list) |->
                                            get_system_parameters(tab_list[k])[1]],
                        resistances |-> [k \in 1..Len(tab_list) |->
                                            QDiv(get_system_parameters(tab_list[k])[2],
                                                 QInt(1000))],
                        clamping_functions |-> [k \in 1..Len(tab_list) |->
                                                   clamping_func(tab_list[k])[1]],
                        end_times |-> [k \in 1..Len(tab_list) |->
                                          clamping_func(tab_list[k])[2]],
                        pauses |-> [k \in 1..Len(tab_list) |->
                                       clamping_func(tab_list[k])[3]]]
            /\ pc' = "run_sim_call"
    /\ UNCHANGED <<module, rkVars, hoVars, capacitance, resistance, stim, peep,
                   schedVars, outVars, exVars, arg, ret, guiVars>>

\* the second call made with the first tab's capacitance and resistance
sim_func_args_first_lung(n) ==
    [capacitance |-> At(args.capacitances, 0), resistance |-> At(args.resistances, 0),
     flux |-> At(args.clamping_functions, n),
     end_time |-> At(args.end_times, n), pause_lapsus |-> At(args.pauses, n)]

\* the arguments of the call of sim_func for run n (0 or 1): lines 341-345,
\* 348-349, 351-352
sim_func_args(n) ==
    [capacitance |-> At(args.capacitances, n), resistance |-> At(args.resistances, n),
     flux |-> At(args.clamping_functions, n),
     end_time |-> At(args.end_times, n), pause_lapsus |-> At(args.pauses, n)]

\* how many simulations run_sim makes
sim_count == IF Len(args.capacitances) = 1 THEN 1 ELSE 2

\* the call sim_func(time_vector, ...) of run number `runs`
run_sim_call ==
    /\ pc = "run_sim_call"
    /\ call' = IF clamp_mode = PRESSURE_MODE_SIM_TEXT
               THEN "pressure_clamp_sim" ELSE "vol_clamp_sim"
    /\ module' = "assisted_respiration_simulations"
    /\ capacitance' = sim_func_args(runs).capacitance
    /\ resistance' = sim_func_args(runs).resistance
    /\ stim' = sim_func_args(runs).flux
    /\ peep' = Zero
    /\ end_time' = sim_func_args(runs).end_time
    /\ pause_lapsus' = sim_func_args(runs).pause_lapsus
    /\ pc' = call'
    /\ UNCHANGED <<rkVars, hoVars, time_vector, outVars, exVars, callerVars>>

\* 60 / 1000
LitresPerMinute == Q(3, 50)

\* lines 341-346, 348-350, 351-353: the call returns and its flux is scaled
\* in place
run_sim_result ==
    /\ pc = "done"
    /\ call \in {"pressure_clamp_sim", "vol_clamp_sim"}
    /\ flux' = VScale(LitresPerMinute, flux)
    /\ first' = Append(first, <<volume, flux', pressure>>)
    /\ runs' = runs + 1
    /\ pc' = IF runs + 1 < sim_count THEN "run_sim_call" ELSE "update_graph"
    /\ UNCHANGED <<call, module, rkVars, hoVars, inVars, schedVars, volume, pressure,
                   exVars, args, arg, ret, guiVars>>

\* no call of run_sim under way: its locals and those of the functions it
\* calls do not exist
NoFrame ==
    /\ time_vector = <<>> /\ capacitance = None /\ resistance = None
    /\ stim = None /\ peep = None
    /\ flux = <<>> /\ volume = <<>> /\ pressure = <<>>
    /\ ex_time = None /\ index = -1 /\ v_0 = None
    /\ NoRuku4 /\ NoSchedule
    /\ runs = 0 /\ first = <<>> /\ NoArgs

\* run_sim ends: its locals and those of the functions it called are gone
return ==
    /\ time_vector' = <<>> /\ capacitance' = None /\ resistance' = None
    /\ stim' = None /\ peep' = None
    /\ flux' = <<>> /\ volume' = <<>> /\ pressure' = <<>>
    /\ T' = <<>> /\ F' = <<>> /\ X_0' = <<>> /\ X' = <<>> /\ j' = 0
    /\ k1' = <<>> /\ k2' = <<>> /\ k3' = <<>> /\ k4' = <<>>
    /\ end_time' = None /\ pause_lapsus' = None
    /\ ex_time' = None /\ index' = -1 /\ v_0' = None
    /\ runs' = 0 /\ first' = <<>>
    /\ args' = [end_time |-> None, pause_lapsus |-> None]

\* lines 347 and 354-355: the figure of the results replaces the one on
\* display.  graph.of remembers the clamp mode and the lists the figure was
\* computed from.
update_graph ==
    /\ pc = "update_graph"
    /\ graph' = [fig |-> first, of |-> [clamp_mode |-> clamp_mode, args |-> args]]
    /\ pc' = "idle"
    /\ call' = "run_sim"
    /\ return
    /\ UNCHANGED <<module, hoVars, arg, ret, clamp_mode, tab_list, tabs>>

\* an exception leaves the callback; the event loop reports it and goes on
mainloop ==
    /\ pc \in {"ValueError", "IndexError"}
    /\ pc' = "idle"
    /\ call' = "run_sim"
    /\ return
    /\ UNCHANGED <<module, hoVars, arg, ret, guiVars>>

\* tab_list.remove(tab_name)
RECURSIVE remove(_, _)
remove(list, name) ==
    IF Len(list) = 0 THEN <<>>
    ELSE IF Head(list) = name THEN Tail(list)
    ELSE <<Head(list)>> \o remove(Tail(list), name)

\* toggle_tab with the name appended before the tab is added
toggle_tab_append_first(tab_name, enabled) ==
    /\ pc = "idle"
    /\ IF enabled
       THEN /\ tab_list' = Append(tab_list, tab_name)
            /\ tabs' = IF tab_name \in DOMAIN tabs THEN tabs
                       ELSE [n \in DOMAIN tabs \cup {tab_name} |->
                                IF n = tab_name THEN DefaultTab ELSE tabs[n]]
       ELSE IF tab_name \notin DOMAIN tabs
            THEN UNCHANGED <<tabs, tab_list>>
            ELSE /\ tabs' = [n \in DOMAIN tabs \ {tab_name} |-> tabs[n]]
                 /\ tab_list' = remove(tab_list, tab_name)
    /\ UNCHANGED <<pc, call, module, rkVars, hoVars, inVars, schedVars, outVars, exVars,
                   args, runs, first, arg, ret, clamp_mode, graph>>

\* ToggleableTabview.toggle_tab.  CTkTabview.add raises ValueError for a name
\* that has a tab and CTkTabview.delete for one that has none; the handler
\* swallows it.
toggle_tab(tab_name, enabled) ==
    /\ pc = "idle"
    /\ IF enabled
       THEN IF tab_name \in DOMAIN tabs
            THEN UNCHANGED <<tabs, tab_list>>
            ELSE /\ tabs' = [n \in DOMAIN tabs \cup {tab_name} |->
                                IF n = tab_name THEN DefaultTab ELSE tabs[n]]
                 /\ tab_list' = Append(tab_list, tab_name)
       ELSE IF tab_name \notin DOMAIN tabs
            THEN UNCHANGED <<tabs, tab_list>>
            ELSE /\ tabs' = [n \in DOMAIN tabs \ {tab_name} |-> tabs[n]]
                 /\ tab_list' = remove(tab_list, tab_name)
    /\ UNCHANGED <<pc, call, module, rkVars, hoVars, inVars, schedVars, outVars, exVars,
                   args, runs, first, arg, ret, clamp_mode, graph>>

\* the second-simulation checkbox, or any other caller of toggle_tab
toggle_second_sim == \E enabled \in BOOLEAN : toggle_tab("Sim. 2", enabled)

\* the clamp menu, or a write to its variable
set_clamp_mode ==
    /\ pc = "idle"
    /\ clamp_mode' \in {PRESSURE_MODE_SIM_TEXT, VOLUME_MODE_SIM_TEXT, Unrecognized}
    /\ clamp_mode' # clamp_mode
    /\ UNCHANGED <<pc, call, module, rkVars, hoVars, inVars, schedVars, outVars, exVars,
                   args, runs, first, arg, ret, tab_list, tabs, graph>>

\* the sliders and radio buttons of one tab
set_sliders ==
    /\ pc = "idle"
    /\ \E tab_name \in DOMAIN tabs, tab \in TabSettings :
          /\ tab # tabs[tab_name]
          /\ tabs' = [tabs EXCEPT ![tab_name] = tab]
    /\ UNCHANGED <<pc, call, module, rkVars, hoVars, inVars, schedVars, outVars, exVars,
                   args, runs, first, arg, ret, clamp_mode, tab_list, graph>>

\* the window as constructed: one tab, pressure mode, the empty figure
InitGui ==
    /\ pc = "idle" /\ call = "run_sim"
    /\ module = "assisted_respiration_simulations"
    /\ clamp_mode = PRESSURE_MODE_SIM_TEXT
    /\ tab_list = <<"Sim. 1">>
    /\ tabs = [n \in {"Sim. 1"} |-> DefaultTab]
    /\ graph = [fig |-> <<>>, of |-> None]
    /\ NoFrame /\ NoHigherOrder
    /\ arg = None /\ ret = None

NextGui ==
    \/ toggle_second_sim \/ set_clamp_mode \/ set_sliders
    \/ run_sim_params \/ run_sim_call \/ run_sim_result \/ update_graph \/ mainloop
    \/ pc_sample \/ pc_return
    \/ vc_defaults \/ vc_inhale \/ vc_exhale \/ vc_return
    \/ single_ruku4

SpecGui == InitGui /\ [][NextGui]_vars

\* what run n (from 1) of a call of run_sim was given
RunArgs(a, n) ==
    <<a.capacitances[n], a.resistances[n], a.clamping_functions[n],
      a.end_times[n], a.pauses[n]>>

\* (volume, flow, pressure) of the runs of this call of run_sim are complete
ResultsReady == pc = "update_graph"

\* some simulation of run_sim is under way or has been
InRunSim == pc \notin {"idle", "ValueError", "IndexError"} \/ call # "run_sim"

UnrecognizedSelector ==
    \/ clamp_mode \notin {PRESSURE_MODE_SIM_TEXT, VOLUME_MODE_SIM_TEXT}
    \/ \E k \in 1..Len(tab_list) :
          tab_list[k] \in DOMAIN tabs /\ tabs[tab_list[k]].choice # IDEAL_PULSE_TEXT

\* a press of the run button
RunPressed == pc = "idle" /\ pc' # "idle"

\* C25: an unrecognized clamp-mode or stimulus selector string makes run_sim
\* raise its parameter error (ValueError) at once: no simulation function is
\* called for that request, nothing is computed, and the graph on display
\* stays the one it was.
C25_UnrecognizedSelectorRaises ==
    /\ [][(RunPressed /\ UnrecognizedSelector) =>
             /\ pc' = "ValueError" /\ call' = "run_sim"
             /\ graph' = graph
             /\ runs' = 0 /\ first' = <<>>
             /\ UNCHANGED <<outVars, rkVars, inVars>>]_vars
    /\ []((pc \notin {"idle", "ValueError", "IndexError"} \/ call # "run_sim")
             => ~UnrecognizedSelector)
    /\ [][graph' # graph => (pc = "update_graph" /\ ~UnrecognizedSelector)]_vars

\* run_sim has raised for a second tab whose stimulus choice is unrecognized,
\* the first tab and the clamp mode being fine, while the figure of an
\* earlier simulation is on display
C25_Witness ==
    /\ pc = "ValueError" /\ call = "run_sim"
    /\ clamp_mode \in {PRESSURE_MODE_SIM_TEXT, VOLUME_MODE_SIM_TEXT}
    /\ Len(tab_list) = 2
    /\ tabs[tab_list[1]].choice = IDEAL_PULSE_TEXT
    /\ tabs[tab_list[2]].choice = Unrecognized
    /\ Len(graph.fig) > 0
    /\ volume = <<>> /\ runs = 0

(***************************************************************************)
(* pressure_clamp_sim called with end_time and pause_lapsus, as run_sim    *)
(* calls it: the variants of assisted_respiration_simulations.py and       *)
(* simulations.py take them in **kwargs.  A call without them is followed  *)
(* by a call with them on the same grid, lung, PEEP and stimulus.          *)
(***************************************************************************)
call_with_kwargs ==
    /\ pc = "done"
    /\ call = "pressure_clamp_sim"
    /\ runs = 0
    /\ first' = <<volume, flux, pressure>>
    /\ runs' = 1
    /\ \E e \in EndTimes, p \in Pauses :
          /\ end_time' = e
          /\ pause_lapsus' = p
          /\ args' = [end_time |-> e, pause_lapsus |-> p]
    /\ pc' = call
    /\ UNCHANGED <<call, module, rkVars, hoVars, inVars, outVars, exVars, arg, ret, guiVars>>

InitPressureKwargs ==
    /\ pc = "pressure_clamp_sim" /\ call = "pressure_clamp_sim"
    /\ module \in {"assisted_respiration_simulations", "simulations"}
    /\ \E hh \in ClampSteps, N \in 2..MaxN, L \in Lungs :
          /\ StepRatioOK(hh, L[1], L[2])
          /\ time_vector = Grid(Zero, hh, N)
          /\ capacitance = L[1]
          /\ resistance = L[2]
    /\ stim \in Stimuli
    /\ peep \in Peeps
    /\ flux = <<>> /\ volume = <<>> /\ pressure = <<>>
    /\ NoRuku4 /\ NoHigherOrder /\ NoSchedule /\ NoCaller /\ NoArgs

NextPressureKwargs == pc_sample \/ single_ruku4 \/ pc_return \/ call_with_kwargs

SpecPressureKwargs == InitPressureKwargs /\ [][NextPressureKwargs]_vars

\* C26: pressure-clamp mode has no phase switch: for a fixed grid, C, R, PEEP
\* and stimulus the returned volume, flow and pressure are the same for every
\* end_time and pause_lapsus passed to pressure_clamp_sim, none included.
C26_ScheduleIgnoredByPressureClamp ==
    (PressureReturned /\ runs = 1) => <<volume, flux, pressure>> = first

\* a call given an end_time and a pause_lapsus that put samples of non-zero
\* flow and of pressure other than PEEP after the exhalation time
C26_Witness ==
    /\ PressureReturned /\ runs = 1
    /\ end_time # None /\ pause_lapsus # None
    /\ \E k \in Samples :
          /\ QLt(QAdd(end_time, pause_lapsus), time_vector[k])
          /\ k >= 2 /\ QLt(end_time, time_vector[k - 1])
          /\ flux[k] # Zero /\ pressure[k] # peep /\ volume[k] # volume[k - 1]

\* how many times name occurs in list
RECURSIVE count(_, _)
count(list, name) ==
    IF Len(list) = 0 THEN 0
    ELSE (IF Head(list) = name THEN 1 ELSE 0) + count(Tail(list), name)

\* tab_list and the tabs of the widget name the same tabs
TabListMatchesTabs ==
    /\ count(tab_list, "Sim. 1") = 1
    /\ count(tab_list, "Sim. 2") <= 1
    /\ {tab_list[k] : k \in 1..Len(tab_list)} = DOMAIN tabs

\* C27: after any sequence of toggle_tab("Sim. 2", enabled) calls, tab_list
\* holds 'Sim. 1' exactly once and 'Sim. 2' at most once and names exactly
\* the tabs that exist in the widget; tab_list and the set of tabs change only
\* by an enable that adds the missing 'Sim. 2' to both or a disable that
\* takes the existing 'Sim. 2' from both, so that an enable of an existing
\* tab or a disable of a missing one leaves both as they are.
C27_TabListTracksTabs ==
    /\ []TabListMatchesTabs
    /\ [][(tab_list' # tab_list \/ DOMAIN tabs' # DOMAIN tabs) =>
             \/ /\ "Sim. 2" \notin DOMAIN tabs
                /\ DOMAIN tabs' = DOMAIN tabs \cup {"Sim. 2"}
                /\ tab_list' = Append(tab_list, "Sim. 2")
             \/ /\ "Sim. 2" \in DOMAIN tabs
                /\ DOMAIN tabs' = DOMAIN tabs \ {"Sim. 2"}
                /\ tab_list' = <<"Sim. 1">>]_vars

\* 'Sim. 2' was enabled, two simulations were run and drawn, and 'Sim. 2' has
\* been disabled again
C27_Witness ==
    /\ pc = "idle"
    /\ Len(graph.fig) = 2
    /\ tab_list = <<"Sim. 1">>
    /\ DOMAIN tabs = {"Sim. 1"}

\* (p - V/C - PEEP)/R
FluxOf(p, V) == QDiv(QSub(QSub(p, QDiv(V, capacitance)), peep), resistance)

\* the pressure-clamp derivative is being integrated by ruku4
InPressureStages ==
    call = "pressure_clamp_sim" /\ pc \in {"ruku4_k2", "ruku4_k3", "ruku4_k4", "ruku4_update"}

\* C28: in pressure_clamp_sim of assisted_respiration_simulations.py and of
\* simulations.py the derivative at an RK4 stage time uses the stimulus value
\* pre-sampled at the grid index nearest to that time, the lower index on a
\* tie, not the stimulus function at that time: of step j, the stages k1, k2
\* and k3 use P(t_j) and k4 uses P(t_{j+1}).
C28_StagesUseNearestSample ==
    (InPressureStages /\ module \in {"assisted_respiration_simulations", "simulations"}) =>
        /\ k1 = <<FluxOf(CallStim(stim, At(time_vector, j)), X_j[1])>>
        /\ pc \in {"ruku4_k3", "ruku4_k4", "ruku4_update"} =>
              k2 = <<FluxOf(CallStim(stim, At(time_vector, j)), k2_state[1])>>
        /\ pc \in {"ruku4_k4", "ruku4_update"} =>
              k3 = <<FluxOf(CallStim(stim, At(time_vector, j)), k3_state[1])>>
        /\ pc = "ruku4_update" =>
              k4 = <<FluxOf(CallStim(stim, At(time_vector, j + 1)), k4_state[1])>>

\* the four stages of a later step of the simulations.py variant are computed,
\* under a stimulus that takes three different values at t_j, t_j + h/2 and
\* t_{j+1}
C28_Witness ==
    /\ InPressureStages /\ pc = "ruku4_update"
    /\ module = "simulations"
    /\ j >= 1
    /\ CallStim(stim, QAdd(At(time_vector, j), QMul(h, Half)))
          \notin {CallStim(stim, At(time_vector, j)), CallStim(stim, At(time_vector, j + 1))}
    /\ CallStim(stim, At(time_vector, j)) # CallStim(stim, At(time_vector, j + 1))
    /\ k2 # k3 /\ k4 # k1

\* 1-based position of the last sample <= end_time
LastInhaleSample ==
    CHOOSE n \in Samples :
        /\ QLe(time_vector[n], end_time)
        /\ \A m \in Samples : QLe(time_vector[m], end_time) => m <= n

\* end_time < t_k <= exhale_time
InPause(k) == QLt(end_time, time_vector[k]) /\ ~AfterExhale(k)

\* C29: in volume-clamp mode with pause_lapsus >= 0 the volume is held
\* through the pause and is continuous into exhalation: at every sample with
\* end_time < t_j <= exhale_time, and at the first sample after exhale_time,
\* the volume equals the volume at the last sample <= end_time.
C29_VolumeHeldThroughPause ==
    (Returned /\ QLe(Zero, pause_lapsus)
        /\ \E n \in Samples : QLe(time_vector[n], end_time)) =>
        \A k \in Samples :
            /\ InPause(k) => volume[k] = volume[LastInhaleSample]
            /\ (AfterExhale(k) /\ (k = 1 \/ ~AfterExhale(k - 1))) =>
                  volume[k] = volume[LastInhaleSample]

\* a returned run with a sample in the pause, the nearest-index lookup reading
\* a sample other than the last one of the inhalation, a held volume that is
\* not 0 and differs from the first sample's, and a decay after it
C29_Witness ==
    /\ Returned /\ QLt(Zero, pause_lapsus)
    /\ \E n \in Samples : QLe(time_vector[n], end_time)
    /\ \E k \in Samples : InPause(k)
    /\ NearestToExhale # LastInhaleSample
    /\ volume[LastInhaleSample] # Zero
    /\ volume[LastInhaleSample] # volume[1]
    /\ \E k \in Samples :
          /\ k >= 2 /\ AfterExhale(k) /\ ~AfterExhale(k - 1)
          /\ k + 1 \in Samples /\ volume[k + 1] # volume[k]

(***************************************************************************)
(* The three copies of vol_clamp_sim: assisted_respiration_simulations.py, *)
(* simulations.py and lungovax_main.py.  A call of one is followed by a    *)
(* call of another with the same arguments.                                *)
(***************************************************************************)
Variants == {"assisted_respiration_simulations", "simulations", "lungovax_main"}

\* how a call ended, and what it returned when it returned
Outcome == IF pc = "done" THEN <<pc, volume, flux, pressure>> ELSE <<pc>>

Ended == pc \in {"done", "IndexError", "ValueError"}

call_variant ==
    /\ Ended
    /\ call = "vol_clamp_sim"
    /\ runs = 0
    /\ first' = Outcome
    /\ runs' = 1
    /\ module' \in Variants \ {module}
    /\ end_time' = args.end_time
    /\ pause_lapsus' = args.pause_lapsus
    /\ pc' = call
    /\ UNCHANGED <<call, rkVars, hoVars, inVars, outVars, exVars, args, arg, ret, guiVars>>

InitVolClampVariants ==
    /\ pc = "vol_clamp_sim" /\ call = "vol_clamp_sim"
    /\ module \in Variants
    /\ \E hh \in ClampSteps, N \in 2..MaxSamples, L \in Lungs :
          /\ StepRatioOK(hh, L[1], L[2])
          /\ time_vector = Grid(Zero, hh, N)
          /\ capacitance = L[1]
          /\ resistance = L[2]
    /\ stim \in {Pulse(QInt(-1), QInt(3), QInt(2)), Ramp(QInt(-1), QInt(2))}
    /\ peep = QInt(1)
    /\ end_time \in EndTimes
    /\ pause_lapsus \in Pauses
    /\ flux = <<>> /\ volume = <<>> /\ pressure = <<>>
    /\ args = [end_time |-> end_time, pause_lapsus |-> pause_lapsus]
    /\ ex_time = None /\ index = -1 /\ v_0 = None
    /\ NoRuku4 /\ NoHigherOrder /\ NoCaller

NextVolClampVariants ==
    vc_defaults \/ vc_inhale \/ vc_exhale \/ single_ruku4 \/ vc_return \/ call_variant

SpecVolClampVariants == InitVolClampVariants /\ [][NextVolClampVariants]_vars

====
